---- MODULE Spec2Model ----
(***************************************************************************)
(* Model of the trap/gem grid solver (src/22120344.py): the pre-validity   *)
(* check, the CNF compiler, the SAT-delegation strategy and the two        *)
(* depth-first strategies (brute_force, backtracking).                     *)
(*                                                                         *)
(* A grid is a function from cells <<i, j>> (0-based, as in the source) to *)
(* the cell strings "_", "T", "G" and the digit strings.  A Python list    *)
(* index n is the TLA+ sequence index n + 1.                               *)
(***************************************************************************)
EXTENDS Integers, Sequences, FiniteSets, TLC

\* ---------------------------------------------------------------- bounds
MaxRows == 2
MaxCols == 4
MaxCells == 4
\* most clue cells, most pre-filled T/G cells, largest clue value of an input
MaxClues == 3
MaxKnown == 2
MaxVal == 4

\* ------------------------------------------------------- cell vocabulary
Digits == <<"0", "1", "2", "3", "4", "5", "6", "7", "8", "9">>

\* str.isdigit() on a one-character cell
isdigit(c) == \E n \in 1..Len(Digits) : Digits[n] = c

\* int(c) for a digit cell
int(c) == (CHOOSE n \in 1..Len(Digits) : Digits[n] = c) - 1

\* ------------------------------------------------------------ grid model
CellsOf(rows, cols) == (0..(rows - 1)) \X (0..(cols - 1))

\* the cells in the order of "for i in range(rows): for j in range(cols)"
RowMajor(rows, cols) ==
    [n \in 1..(rows * cols) |-> <<(n - 1) \div cols, (n - 1) % cols>>]

\* position of a cell in RowMajor
RowMajorIndex(cell, cols) == cell[1] * cols + cell[2] + 1

get_neighbors(i, j, rows, cols) ==
    LET Offsets == << <<-1, -1>>, <<-1, 0>>, <<-1, 1>>, <<0, -1>>,
                      <<0, 1>>, <<1, -1>>, <<1, 0>>, <<1, 1>> >>
        Shifted == [n \in 1..8 |-> <<i + Offsets[n][1], j + Offsets[n][2]>>]
    IN  SelectSeq(Shifted, LAMBDA p : /\ 0 <= p[1] /\ p[1] < rows
                                      /\ 0 <= p[2] /\ p[2] < cols)

\* sum(1 for ni, nj in neighbors if grid[ni][nj] == sym)
CountNeighbors(g, neighbors, sym) ==
    Cardinality({n \in 1..Len(neighbors) : g[neighbors[n]] = sym})

\* check_grid_validity without its lower test "(trap_count + unknown_count) < k"
check_grid_validity_upper_only(g, rows, cols) ==
    \A cell \in CellsOf(rows, cols) :
        isdigit(g[cell]) =>
            LET k == int(g[cell])
                neighbors == get_neighbors(cell[1], cell[2], rows, cols)
                trap_count == CountNeighbors(g, neighbors, "T")
            IN  ~(trap_count > k)

check_grid_validity(g, rows, cols) ==
    \A cell \in CellsOf(rows, cols) :
        isdigit(g[cell]) =>
            LET k == int(g[cell])
                neighbors == get_neighbors(cell[1], cell[2], rows, cols)
                trap_count == CountNeighbors(g, neighbors, "T")
                unknown_count == CountNeighbors(g, neighbors, "_")
            IN  ~(trap_count > k \/ (trap_count + unknown_count) < k)

\* is_valid_grid whose partial mode tests "trap_count + unknown_count <= k"
is_valid_grid_overpruning(g, rows, cols, partial) ==
    \A cell \in CellsOf(rows, cols) :
        isdigit(g[cell]) =>
            LET k == int(g[cell])
                neighbors == get_neighbors(cell[1], cell[2], rows, cols)
                trap_count == CountNeighbors(g, neighbors, "T")
                unknown_count == CountNeighbors(g, neighbors, "_")
            IN  IF ~partial
                THEN ~(trap_count # k)
                ELSE /\ ~(trap_count > k)
                     /\ ~(trap_count + unknown_count <= k)

\* is_valid_grid that applies the exact test in partial mode too
is_valid_grid_exact_always(g, rows, cols, partial) ==
    \A cell \in CellsOf(rows, cols) :
        isdigit(g[cell]) =>
            LET k == int(g[cell])
                neighbors == get_neighbors(cell[1], cell[2], rows, cols)
                trap_count == CountNeighbors(g, neighbors, "T")
            IN  ~(trap_count # k)

is_valid_grid(g, rows, cols, partial) ==
    \A cell \in CellsOf(rows, cols) :
        isdigit(g[cell]) =>
            LET k == int(g[cell])
                neighbors == get_neighbors(cell[1], cell[2], rows, cols)
                trap_count == CountNeighbors(g, neighbors, "T")
                unknown_count == CountNeighbors(g, neighbors, "_")
            IN  IF ~partial
                THEN ~(trap_count # k)
                ELSE /\ ~(trap_count > k)
                     /\ ~(trap_count + unknown_count < k)

\* ------------------------------------------------------ constraint compiler
\* var_map of generate_cnf: the 1-based rank of a "_" cell in row-major
\* order; 0 stands for None (T/G cells) and for a missing key (clue cells),
\* which the source treats alike through "var_map.get(..) is not None".
var_map_of(g, rows, cols) ==
    [cell \in CellsOf(rows, cols) |->
        IF g[cell] = "_"
        THEN Cardinality({n \in 1..RowMajorIndex(cell, cols) :
                              g[RowMajor(rows, cols)[n]] = "_"})
        ELSE 0]

var_count_of(g, rows, cols) ==
    Cardinality({cell \in CellsOf(rows, cols) : g[cell] = "_"})

\* the elements of seq at the positions in S, in order
SubSeqAt(seq, S) ==
    LET F[n \in 0..Len(seq)] ==
            IF n = 0 THEN <<>>
            ELSE IF n \in S THEN Append(F[n - 1], seq[n]) ELSE F[n - 1]
    IN  F[Len(seq)]

\* itertools.combinations(seq, r), as a set of tuples
combinations(seq, r) ==
    {SubSeqAt(seq, S) : S \in {T \in SUBSET (1..Len(seq)) : Cardinality(T) = r}}

Negated(clause) == [n \in 1..Len(clause) |-> -clause[n]]

neighbor_vars_of(g, rows, cols, cell) ==
    LET vm == var_map_of(g, rows, cols)
        neighbors == get_neighbors(cell[1], cell[2], rows, cols)
        unknowns == SelectSeq(neighbors, LAMBDA p : vm[p] # 0)
    IN  [n \in 1..Len(unknowns) |-> vm[unknowns[n]]]

adjusted_k_of(g, rows, cols, cell) ==
    int(g[cell])
      - CountNeighbors(g, get_neighbors(cell[1], cell[2], rows, cols), "T")

\* ClueClauses whose at-most family takes subsets of size adjusted_k
ClueClauses_short_at_most(neighbor_vars, adjusted_k) ==
    IF neighbor_vars = <<>> THEN {}
    ELSE IF adjusted_k = 0
    THEN {<<-neighbor_vars[n]>> : n \in 1..Len(neighbor_vars)}
    ELSE (IF adjusted_k > 0
          THEN combinations(neighbor_vars, Len(neighbor_vars) - adjusted_k + 1)
          ELSE {})
         \cup
         (IF adjusted_k < Len(neighbor_vars)
          THEN {Negated(comb) : comb \in combinations(neighbor_vars, adjusted_k)}
          ELSE {})

\* the clauses one clue cell adds to clauses_set
ClueClauses(neighbor_vars, adjusted_k) ==
    IF neighbor_vars = <<>> THEN {}
    ELSE IF adjusted_k = 0
    THEN {<<-neighbor_vars[n]>> : n \in 1..Len(neighbor_vars)}
    ELSE (IF adjusted_k > 0
          THEN combinations(neighbor_vars, Len(neighbor_vars) - adjusted_k + 1)
          ELSE {})
         \cup
         (IF adjusted_k < Len(neighbor_vars)
          THEN {Negated(comb) : comb \in combinations(neighbor_vars, adjusted_k + 1)}
          ELSE {})

\* generate_cnf: ok = FALSE is the (None, None, 0) result
generate_cnf(g, rows, cols) ==
    LET clues == {cell \in CellsOf(rows, cols) : isdigit(g[cell])}
        bad(cell) ==
            \/ adjusted_k_of(g, rows, cols, cell) < 0
            \/ adjusted_k_of(g, rows, cols, cell)
                   > Len(neighbor_vars_of(g, rows, cols, cell))
    IN  IF \E cell \in clues : bad(cell)
        THEN [ok |-> FALSE, clauses |-> {}, var_map |-> <<>>, var_count |-> 0]
        ELSE [ok |-> TRUE,
              clauses |-> UNION {ClueClauses(neighbor_vars_of(g, rows, cols, cell),
                                             adjusted_k_of(g, rows, cols, cell))
                                    : cell \in clues},
              var_map |-> var_map_of(g, rows, cols),
              var_count |-> var_count_of(g, rows, cols)]

\* ------------------------------------------------------------ SAT solver
\* Glucose3 creates the variables 1..n, n the largest variable id of an added
\* clause; get_model() is a list of n signed literals (an empty list when no
\* clause was added).
nof_vars(clauses) ==
    LET ids == UNION {{IF cl[n] < 0 THEN -cl[n] ELSE cl[n] : n \in 1..Len(cl)}
                         : cl \in clauses}
    IN  IF ids = {} THEN 0 ELSE CHOOSE v \in ids : \A w \in ids : w <= v

\* a literal list satisfies a clause when it holds one of its literals
SatisfiesClause(model, cl) ==
    \E n \in 1..Len(cl) :
        LET v == IF cl[n] < 0 THEN -cl[n] ELSE cl[n]
        IN  model[v] = cl[n]

\* the models solver.solve() / solver.get_model() may produce; {} is UNSAT
Glucose3_models(clauses) ==
    {model \in {[v \in 1..nof_vars(clauses) |-> IF b[v] THEN v ELSE -v] :
                    b \in [1..nof_vars(clauses) -> BOOLEAN]} :
        \A cl \in clauses : SatisfiesClause(model, cl)}

\* --------------------------------------------------------------- strategies
VARIABLES
    rows, cols,     \* len(grid), len(grid[0])
    grid,           \* the grid object of the caller
    method,         \* the strategy called: "pysat", "bruteforce", "backtracking"
    pc,             \* position of the running call
    temp_grid,      \* result_grid / temp_grid, the working copy
    empty_cells,    \* the cells the search assigns, in visiting order
    stack,          \* active try_combinations / try_backtrack calls
    cnf,            \* what generate_cnf produced in this call
    sat,            \* outcome of solver.solve()
    ret,            \* the value the strategy returned
    out_file,       \* the grid handed to write_output
    nWrites         \* number of cell assignments made by the call

vars == <<rows, cols, grid, method, pc, temp_grid, empty_cells, stack, cnf,
          sat, ret, out_file, nWrites>>

\* the grid shapes explored: at most MaxRows rows, MaxCols columns, MaxCells cells
Shapes ==
    {sh \in (1..MaxRows) \X (1..MaxCols) : sh[1] * sh[2] <= MaxCells}

\* an input grid, as read_input can deliver it: digits on the cells of clues,
\* T/G on the cells of known, "_" elsewhere
InputGrid(r, c, clues, known) ==
    [cell \in CellsOf(r, c) |->
        IF cell \in DOMAIN clues THEN clues[cell]
        ELSE IF cell \in DOMAIN known THEN known[cell] ELSE "_"]

NoGrid == [cell \in {} |-> "_"]
NoCnf == [generated |-> FALSE, ok |-> FALSE, clauses |-> {}]
Pending == [status |-> "pending", isNone |-> TRUE, grid |-> NoGrid, timeNone |-> TRUE]

\* "return None, None"
ReturnNoneNone ==
    [status |-> "returned", isNone |-> TRUE, grid |-> NoGrid, timeNone |-> TRUE]

\* "return None, execution_time"
ReturnNoneTime ==
    [status |-> "returned", isNone |-> TRUE, grid |-> NoGrid, timeNone |-> FALSE]

\* "return g, execution_time"
ReturnGrid(g) ==
    [status |-> "returned", isNone |-> FALSE, grid |-> g, timeNone |-> FALSE]

\* truth value of a returned grid in "if result:"
Truthy(r) == ~r.isNone /\ DOMAIN r.grid # {}

Init ==
    /\ \E sh \in Shapes :
         /\ rows = sh[1]
         /\ cols = sh[2]
         /\ \E cs \in SUBSET CellsOf(sh[1], sh[2]) :
              /\ Cardinality(cs) <= MaxClues
              /\ \E ks \in SUBSET (CellsOf(sh[1], sh[2]) \ cs) :
                   /\ Cardinality(ks) <= MaxKnown
                   /\ \E clues \in [cs -> {Digits[k + 1] : k \in 0..MaxVal}],
                         known \in [ks -> {"T", "G"}] :
                        grid = InputGrid(sh[1], sh[2], clues, known)
    /\ method = "none"
    /\ pc = "idle"
    /\ temp_grid = NoGrid
    /\ empty_cells = <<>>
    /\ stack = <<>>
    /\ cnf = NoCnf
    /\ sat = "none"
    /\ ret = Pending
    /\ out_file = NoGrid
    /\ nWrites = 0

\* WriteCell when the working grid shares its rows with the caller's grid
WriteCell_aliased(caller, working, cell, v) ==
    [grid |-> [caller EXCEPT ![cell] = v],
     temp_grid |-> [working EXCEPT ![cell] = v]]

\* "temp_grid[i][j] = v": the working grid is built by [row[:] for row in grid],
\* so the rows written are not the rows of the caller's grid
WriteCell(caller, working, cell, v) ==
    [grid |-> caller, temp_grid |-> [working EXCEPT ![cell] = v]]

\* the early exit shared by the three strategies: "Grid is invalid."
RejectInvalid(m) ==
    /\ method' = m
    /\ out_file' = grid
    /\ ret' = ReturnNoneNone
    /\ pc' = "done"
    /\ UNCHANGED <<rows, cols, grid, temp_grid, empty_cells, stack, cnf, sat,
                   nWrites>>

\* ------------------------------------------------------------ SAT delegation
\* the write-back loop "for (i, j), var_id in var_map.items()": the cells with
\* a variable, in insertion (row-major) order
VarCells(var_map) ==
    LET order == RowMajor(rows, cols)
    IN  SelectSeq(order, LAMBDA cell : var_map[cell] # 0)

\* the first n cells of the write-back loop written from the model
WriteBack(caller, working, var_map, model, n) ==
    LET cells == VarCells(var_map)
        F[m \in 0..n] ==
            IF m = 0 THEN [grid |-> caller, temp_grid |-> working]
            ELSE WriteCell(F[m - 1].grid, F[m - 1].temp_grid, cells[m],
                           IF model[var_map[cells[m]]] > 0 THEN "T" ELSE "G")
    IN  F[n]

\* number of loop iterations before "model[var_id - 1]" is out of range
\* (IndexError); all of them when every variable has a model entry
WritableCount(var_map, model) ==
    LET cells == VarCells(var_map)
        beyond == {m \in 1..Len(cells) : var_map[cells[m]] > Len(model)}
    IN  IF beyond = {} THEN Len(cells)
        ELSE (CHOOSE m \in beyond : \A o \in beyond : m <= o) - 1

solve_with_pysat ==
    /\ pc = "idle"
    /\ IF ~check_grid_validity(grid, rows, cols)
       THEN RejectInvalid("pysat")
       ELSE LET gen == generate_cnf(grid, rows, cols)
                models == Glucose3_models(gen.clauses)
            IN  /\ method' = "pysat"
                /\ cnf' = [generated |-> TRUE, ok |-> gen.ok, clauses |-> gen.clauses]
                /\ UNCHANGED <<rows, cols, empty_cells, stack>>
                /\ IF ~gen.ok
                   THEN /\ out_file' = grid
                        /\ ret' = ReturnNoneNone
                        /\ pc' = "done"
                        /\ UNCHANGED <<grid, temp_grid, sat, nWrites>>
                   ELSE IF models = {}
                   THEN \* solver.solve() is False: result_grid is returned as copied
                        /\ sat' = "UNSAT"
                        /\ temp_grid' = grid
                        /\ out_file' = grid
                        /\ ret' = ReturnGrid(grid)
                        /\ pc' = "done"
                        /\ UNCHANGED <<grid, nWrites>>
                   ELSE \E model \in models :
                        LET n == WritableCount(gen.var_map, model)
                            w == WriteBack(grid, grid, gen.var_map, model, n)
                        IN  /\ sat' = "SAT"
                            /\ grid' = w.grid
                            /\ temp_grid' = w.temp_grid
                            /\ nWrites' = n
                            /\ IF n = Len(VarCells(gen.var_map))
                               THEN /\ out_file' = w.temp_grid
                                    /\ ret' = ReturnGrid(w.temp_grid)
                                    /\ pc' = "done"
                               ELSE \* IndexError leaves solve_with_pysat
                                    /\ out_file' = out_file
                                    /\ ret' = [Pending EXCEPT !.status = "raised"]
                                    /\ pc' = "raised"

\* ---------------------------------------------------------- search strategies
\* larger of two (priority, i, j) tuples in Python's tuple order
TupleLess(a, b) ==
    \/ a[1] < b[1]
    \/ a[1] = b[1] /\ a[2] < b[2]
    \/ a[1] = b[1] /\ a[2] = b[2] /\ a[3] < b[3]

\* sorted(S, reverse=True) of a set of distinct tuples
RECURSIVE SortedReverse(_)
SortedReverse(S) ==
    IF S = {} THEN <<>>
    ELSE LET top == CHOOSE a \in S : \A b \in S : b = a \/ TupleLess(b, a)
         IN  <<top>> \o SortedReverse(S \ {top})

\* number of digit neighbours of a cell
priority_of(g, cell) ==
    LET neighbors == get_neighbors(cell[1], cell[2], rows, cols)
    IN  Cardinality({n \in 1..Len(neighbors) : isdigit(g[neighbors[n]])})

\* get_priority_cells sorted without reverse=True
get_priority_cells_ascending(g) ==
    LET cells == {<<priority_of(g, cell), cell[1], cell[2]>> :
                      cell \in {c \in CellsOf(rows, cols) : g[c] = "_"}}
        sorted == SortedReverse(cells)
    IN  [n \in 1..Len(sorted) |->
            <<sorted[Len(sorted) + 1 - n][2], sorted[Len(sorted) + 1 - n][3]>>]

get_priority_cells(g) ==
    LET cells == {<<priority_of(g, cell), cell[1], cell[2]>> :
                      cell \in {c \in CellsOf(rows, cols) : g[c] = "_"}}
        sorted == SortedReverse(cells)
    IN  [n \in 1..Len(sorted) |-> <<sorted[n][2], sorted[n][3]>>]

\* empty_cells of brute_force: the "_" cells in row-major order
row_major_empty_cells(g) ==
    SelectSeq(RowMajor(rows, cols), LAMBDA cell : g[cell] = "_")

EmptyCellsOf(m, g) ==
    IF m = "backtracking" THEN get_priority_cells(g) ELSE row_major_empty_cells(g)

\* brute_force / backtracking up to the first call try_*(0, result_grid)
StartSearch(m) ==
    /\ pc = "idle"
    /\ IF ~check_grid_validity(grid, rows, cols)
       THEN RejectInvalid(m)
       ELSE /\ method' = m
            /\ empty_cells' = EmptyCellsOf(m, grid)
            /\ temp_grid' = grid
            /\ stack' = <<[index |-> 0, trying |-> "_"]>>
            /\ pc' = "enter"
            /\ UNCHANGED <<rows, cols, grid, cnf, sat, ret, out_file, nWrites>>

Top == stack[Len(stack)]

\* Assign that leaves out the reset "temp_grid[i][j] = '_'"
Assign_no_undo(frames, v, next) ==
    LET w == WriteCell(grid, temp_grid, empty_cells[frames[Len(frames)].index + 1], v)
    IN  /\ grid' = w.grid
        /\ temp_grid' = IF v = "_" THEN temp_grid ELSE w.temp_grid
        /\ stack' = [frames EXCEPT ![Len(frames)].trying = v]
        /\ nWrites' = nWrites + 1
        /\ pc' = next

\* the frame on top assigns v to its cell and goes on to the partial check
Assign(frames, v, next) ==
    LET w == WriteCell(grid, temp_grid, empty_cells[frames[Len(frames)].index + 1], v)
    IN  /\ grid' = w.grid
        /\ temp_grid' = w.temp_grid
        /\ stack' = [frames EXCEPT ![Len(frames)].trying = v]
        /\ nWrites' = nWrites + 1
        /\ pc' = next

\* "if index == len(empty_cells)", else "temp_grid[i][j] = 'G'"
Enter(m) ==
    /\ method = m /\ pc = "enter"
    /\ IF Top.index = Len(empty_cells)
       THEN /\ pc' = "full"
            /\ UNCHANGED <<grid, temp_grid, stack, nWrites>>
       ELSE Assign(stack, "G", "chkG")
    /\ UNCHANGED <<rows, cols, method, empty_cells, cnf, sat, ret, out_file>>

\* "if is_valid_grid(temp_grid)" at a leaf: the grid goes up through every
\* "if result: return result" and the strategy returns it
FullCheck(m) ==
    /\ method = m /\ pc = "full"
    /\ IF is_valid_grid(temp_grid, rows, cols, FALSE) /\ Truthy(ReturnGrid(temp_grid))
       THEN /\ stack' = <<>>
            /\ out_file' = temp_grid
            /\ ret' = ReturnGrid(temp_grid)
            /\ pc' = "done"
       ELSE /\ pc' = "ret_none"
            /\ UNCHANGED <<stack, out_file, ret>>
    /\ UNCHANGED <<rows, cols, grid, method, temp_grid, empty_cells, cnf, sat,
                   nWrites>>

\* after 'G': "if is_valid_grid(temp_grid, partial=True)" recurse, else try 'T'
CheckG(m) ==
    /\ method = m /\ pc = "chkG"
    /\ IF is_valid_grid(temp_grid, rows, cols, TRUE)
       THEN /\ stack' = Append(stack, [index |-> Top.index + 1, trying |-> "_"])
            /\ pc' = "enter"
            /\ UNCHANGED <<grid, temp_grid, nWrites>>
       ELSE Assign(stack, "T", "chkT")
    /\ UNCHANGED <<rows, cols, method, empty_cells, cnf, sat, ret, out_file>>

\* after 'T': recurse, else reset the cell to '_' and return None
CheckT(m) ==
    /\ method = m /\ pc = "chkT"
    /\ IF is_valid_grid(temp_grid, rows, cols, TRUE)
       THEN /\ stack' = Append(stack, [index |-> Top.index + 1, trying |-> "_"])
            /\ pc' = "enter"
            /\ UNCHANGED <<grid, temp_grid, nWrites>>
       ELSE Assign(stack, "_", "ret_none")
    /\ UNCHANGED <<rows, cols, method, empty_cells, cnf, sat, ret, out_file>>

\* a call returns None: its caller goes on after "result = try_*(index + 1, ..)",
\* and the strategy reports no solution when the call was the first one
ReturnNone(m) ==
    /\ method = m /\ pc = "ret_none"
    /\ LET frames == SubSeq(stack, 1, Len(stack) - 1)
       IN  IF frames = <<>>
           THEN /\ stack' = frames
                /\ out_file' = grid
                /\ ret' = ReturnNoneTime
                /\ pc' = "done"
                /\ UNCHANGED <<grid, temp_grid, nWrites>>
           ELSE /\ UNCHANGED <<ret, out_file>>
                /\ IF frames[Len(frames)].trying = "G"
                   THEN Assign(frames, "T", "chkT")
                   ELSE Assign(frames, "_", "ret_none")
    /\ UNCHANGED <<rows, cols, method, empty_cells, cnf, sat>>

brute_force == StartSearch("bruteforce")

try_combinations ==
    \/ Enter("bruteforce")
    \/ FullCheck("bruteforce")
    \/ CheckG("bruteforce")
    \/ CheckT("bruteforce")
    \/ ReturnNone("bruteforce")

backtracking == StartSearch("backtracking")

try_backtrack ==
    \/ Enter("backtracking")
    \/ FullCheck("backtracking")
    \/ CheckG("backtracking")
    \/ CheckT("backtracking")
    \/ ReturnNone("backtracking")

Next ==
    \/ solve_with_pysat
    \/ brute_force
    \/ try_combinations
    \/ backtracking
    \/ try_backtrack

Spec == Init /\ [][Next]_vars

\* ------------------------------------------------ the puzzle, for the claims
\* Stated from the rules of the puzzle rather than through the checker's code.
Adjacent(a, b) ==
    /\ a # b
    /\ a[1] - b[1] \in {-1, 0, 1}
    /\ a[2] - b[2] \in {-1, 0, 1}

Around(g, cell, sym) ==
    Cardinality({n \in DOMAIN g : Adjacent(cell, n) /\ g[n] = sym})

ClueCells(g) == {cell \in DOMAIN g : isdigit(g[cell])}
UnknownCells(g) == {cell \in DOMAIN g : g[cell] = "_"}

\* every clue cell has exactly as many T neighbours as its value
SatisfiesClues(g) ==
    \A cell \in ClueCells(g) : Around(g, cell, "T") = int(g[cell])

\* g with every Unknown cell resolved to T or G
Completions(g) ==
    {[cell \in DOMAIN g |-> IF g[cell] = "_" THEN a[cell] ELSE g[cell]] :
        a \in [UnknownCells(g) -> {"G", "T"}]}

SolutionsOf(g) == {h \in Completions(g) : SatisfiesClues(h)}

\* g with any subset of its Unknown cells replaced by T or G
ExtensionsOf(g) ==
    {[cell \in DOMAIN g |-> IF g[cell] = "_" THEN a[cell] ELSE g[cell]] :
        a \in [UnknownCells(g) -> {"_", "G", "T"}]}

\* some clue has too many T neighbours, or too few T and "_" neighbours
PreInvalid(g) ==
    \E cell \in ClueCells(g) :
        \/ Around(g, cell, "T") > int(g[cell])
        \/ Around(g, cell, "T") + Around(g, cell, "_") < int(g[cell])

Searching == pc \in {"enter", "chkG", "chkT", "full", "ret_none"}
Returned == pc = "done" /\ ret.status = "returned"

\* ------------------------------------------------------------------- C1
\* C1: whenever backtracking or brute_force returns a non-None grid, or the
\* SAT solver called by solve_with_pysat finds a model, a grid is returned
\* that has no "_" cell and passes the full check (every clue cell has exactly
\* as many T neighbours as its value).
C1_Soundness ==
    /\ (method \in {"bruteforce", "backtracking"} /\ Returned /\ ~ret.isNone)
          => /\ UnknownCells(ret.grid) = {}
             /\ is_valid_grid(ret.grid, rows, cols, FALSE)
             /\ SatisfiesClues(ret.grid)
    /\ (method = "pysat" /\ sat = "SAT")
          => /\ Returned /\ ~ret.isNone
             /\ UnknownCells(ret.grid) = {}
             /\ is_valid_grid(ret.grid, rows, cols, FALSE)
             /\ SatisfiesClues(ret.grid)

\* ------------------------------------------------------------------- C2
\* C2: on a grid that passes the pre-validity check and has no satisfying
\* assignment, solve_with_pysat and backtracking both return a None grid.
C2_NoSolutionSignal ==
    (/\ method \in {"pysat", "backtracking"}
     /\ pc \in {"done", "raised"}
     /\ check_grid_validity(grid, rows, cols)
     /\ SolutionsOf(grid) = {})
        => Returned /\ ret.isNone

\* ------------------------------------------------------------------- C3
\* C3: on a grid that passes the pre-validity check, backtracking and
\* brute_force return a non-None grid exactly when some assignment of the
\* Unknown cells satisfies every clue.
C3_Completeness ==
    (/\ method \in {"bruteforce", "backtracking"}
     /\ pc = "done"
     /\ check_grid_validity(grid, rows, cols))
        => /\ Returned
           /\ ret.isNone <=> SolutionsOf(grid) = {}

\* a search that had to prune or backtrack and still found a solution
C3_Witness ==
    /\ method = "backtracking" /\ Returned /\ ~ret.isNone
    /\ nWrites > Len(empty_cells)
    /\ Cardinality(ClueCells(grid)) = 2

\* ------------------------------------------------------------------- C4
\* truth assignments to the variables 1..n
Assignments(n) == [1..n -> BOOLEAN]

AssignmentSatisfies(b, clauses) ==
    \A cl \in clauses :
        \E n \in 1..Len(cl) : IF cl[n] > 0 THEN b[cl[n]] ELSE ~b[-cl[n]]

\* exactly k - t of the Unknown neighbours of every clue are true under b
ExactlyK(g, b) ==
    LET vm == var_map_of(g, rows, cols)
    IN  \A cell \in ClueCells(g) :
            Cardinality({n \in UnknownCells(g) : Adjacent(cell, n) /\ b[vm[n]]})
                = int(g[cell]) - Around(g, cell, "T")

\* C4: when generate_cnf returns a clause set, an assignment of the variables
\* satisfies every clause iff exactly k - t of the Unknown neighbours of every
\* clue cell are true; and the clause set of a grid is unsatisfiable exactly
\* when backtracking, run to exhaustion on it, finds no solution.
C4_ExactlyKEncoding ==
    /\ (method = "pysat" /\ cnf.generated /\ cnf.ok)
          => \A b \in Assignments(Cardinality(UnknownCells(grid))) :
                 AssignmentSatisfies(b, cnf.clauses) <=> ExactlyK(grid, b)
    /\ (method = "backtracking" /\ pc = "done" /\ generate_cnf(grid, rows, cols).ok)
          => (ret.isNone <=>
                 ~\E b \in Assignments(Cardinality(UnknownCells(grid))) :
                      AssignmentSatisfies(b, generate_cnf(grid, rows, cols).clauses))

\* a clause set with both clause families of an exactly-a-of-n, 0 < a < n
C4_Witness ==
    /\ method = "pysat" /\ cnf.generated /\ cnf.ok
    /\ \E cl \in cnf.clauses : Len(cl) >= 2 /\ cl[1] > 0
    /\ \E cl \in cnf.clauses : Len(cl) >= 2 /\ cl[1] < 0

\* ------------------------------------------------------------------- C5
\* C5: when a clue of the initial grid has more T neighbours than its value,
\* or fewer T and "_" neighbours than its value, check_grid_validity is False
\* and every strategy returns (None, None) with no clause generated and no
\* cell assigned.
C5_PreValidityGate ==
    PreInvalid(grid)
        => /\ ~check_grid_validity(grid, rows, cols)
           /\ method # "none"
                => /\ Returned /\ ret.isNone /\ ret.timeNone
                   /\ ~cnf.generated
                   /\ nWrites = 0
                   /\ temp_grid = NoGrid
                   /\ stack = <<>>

\* a clue larger than its number of neighbours, rejected by backtracking
C5_Witness ==
    /\ method = "backtracking" /\ Returned
    /\ \E cell \in ClueCells(grid) :
           int(grid[cell]) > Cardinality({n \in DOMAIN grid : Adjacent(cell, n)})

\* ------------------------------------------------------------------- C6
\* C6: brute_force refuses to run, returning without searching, whenever the
\* number of Unknown cells exceeds a fixed threshold (here: some threshold
\* below the largest grid of the model).
C6_RefusesAboveThreshold ==
    \E threshold \in 0..(MaxCells - 1) :
        (method = "bruteforce" /\ Cardinality(UnknownCells(grid)) > threshold)
            => ~Searching /\ nWrites = 0

\* ------------------------------------------------------------------- C7
\* C7: no step of any strategy changes a cell of the caller's grid.
C7_CallerGridUnchanged == [][grid' = grid]_vars

\* a strategy has written cells of its working copy
C7_Witness ==
    /\ method # "none" /\ nWrites > 0
    /\ temp_grid # grid

\* ------------------------------------------------------------------- C8
\* C8: a grid on which the partial check fails keeps failing it after any
\* subset of its "_" cells is replaced by T or G.
C8_PartialMonotone ==
    \A g \in (IF pc = "idle" THEN {grid} ELSE {})
                \cup (IF Searching THEN {temp_grid} ELSE {}) :
        ~is_valid_grid(g, rows, cols, TRUE)
            => \A h \in ExtensionsOf(g) : ~is_valid_grid(h, rows, cols, TRUE)

\* a working grid that fails the partial check with cells still to fill
C8_Witness ==
    /\ pc = "chkG"
    /\ ~is_valid_grid(temp_grid, rows, cols, TRUE)
    /\ Cardinality(UnknownCells(temp_grid)) >= 2

\* ------------------------------------------------------------------- C9
\* number of clue neighbours of a cell
ClueNeighbours(g, cell) ==
    Cardinality({n \in ClueCells(g) : Adjacent(cell, n)})

\* g comes before h in the lexicographic order over the cells of order, G < T
LexBefore(g, h, order) ==
    \E n \in 1..Len(order) :
        /\ g[order[n]] = "G" /\ h[order[n]] = "T"
        /\ \A m \in 1..(n - 1) : g[order[m]] = h[order[m]]

\* order lists every Unknown cell of g once
ListsUnknowns(order, g) ==
    /\ {order[n] : n \in 1..Len(order)} = UnknownCells(g)
    /\ Len(order) = Cardinality(UnknownCells(g))

\* C9: backtracking visits the Unknown cells in descending order of their
\* number of clue neighbours and returns the lexicographically least
\* satisfying assignment over that order with G < T; brute_force returns the
\* lexicographically least one over row-major order.
C9_FirstSolution ==
    /\ (method = "backtracking" /\ pc = "enter" /\ Len(stack) = 1)
          => /\ ListsUnknowns(empty_cells, grid)
             /\ \A n \in 1..Len(empty_cells) : \A m \in n..Len(empty_cells) :
                    ClueNeighbours(grid, empty_cells[n])
                        >= ClueNeighbours(grid, empty_cells[m])
    /\ (method = "bruteforce" /\ pc = "enter" /\ Len(stack) = 1)
          => /\ ListsUnknowns(empty_cells, grid)
             /\ \A n \in 1..Len(empty_cells) : \A m \in n..Len(empty_cells) :
                    RowMajorIndex(empty_cells[n], cols)
                        <= RowMajorIndex(empty_cells[m], cols)
    /\ (method \in {"bruteforce", "backtracking"} /\ Returned /\ ~ret.isNone)
          => /\ ret.grid \in SolutionsOf(grid)
             /\ \A h \in SolutionsOf(grid) :
                    h = ret.grid \/ LexBefore(ret.grid, h, empty_cells)

\* several solutions, a visiting order that is not row-major, a T in the answer
C9_Witness ==
    /\ method = "backtracking" /\ Returned /\ ~ret.isNone
    /\ Cardinality(SolutionsOf(grid)) >= 2
    /\ empty_cells # row_major_empty_cells(grid)
    /\ \E n \in 1..Len(empty_cells) : ret.grid[empty_cells[n]] = "T"
    /\ \E n \in 1..(Len(empty_cells) - 1) :
           ClueNeighbours(grid, empty_cells[n])
               > ClueNeighbours(grid, empty_cells[n + 1])

\* ------------------------------------------------------------------ C10
\* C10: at every entry to try_backtrack / try_combinations the cells before
\* index are T or G and the cells from index on are "_"; when a call returns
\* None the cells from its index on are "_" again; the recursion is never
\* deeper than the number of Unknown cells plus one; the full check is only
\* evaluated on a grid with no "_" cell.
C10_ScopedMutation ==
    /\ pc = "enter"
          => \A n \in 1..Len(empty_cells) :
                 IF n <= Top.index
                 THEN temp_grid[empty_cells[n]] \in {"T", "G"}
                 ELSE temp_grid[empty_cells[n]] = "_"
    /\ pc = "ret_none"
          => \A n \in (Top.index + 1)..Len(empty_cells) :
                 temp_grid[empty_cells[n]] = "_"
    /\ Len(stack) <= Cardinality(UnknownCells(grid)) + 1
    /\ pc = "full" => UnknownCells(temp_grid) = {}

\* an inner call that has tried both values returns None
C10_Witness ==
    /\ pc = "ret_none"
    /\ Top.index > 0 /\ Top.index < Len(empty_cells)
    /\ Top.trying = "_"

====
